---- MODULE Spec2Model ----
(***************************************************************************)
(* A model of the agora forum application (agora/models.py): the Forum,    *)
(* ForumThread, ForumReply, UserPostCount and ThreadSubscription tables,   *)
(* the counter maintenance methods of Forum and ForumThread, and the       *)
(* post_save / post_delete signal handlers.                                *)
(*                                                                         *)
(* Every table is a variable holding its rows.  A Django model instance is *)
(* a copy of a row; save() writes the whole copy back to its row.          *)
(***************************************************************************)
EXTENDS Integers, Sequences, FiniteSets

VARIABLES
    Forum,               \* [forum id -> row]          (class Forum)
    ForumThread,         \* [thread id -> row]         (class ForumThread)
    ForumReply,          \* sequence of rows, id = index (class ForumReply)
    UserPostCount,       \* sequence of rows           (class UserPostCount)
    ThreadSubscription,  \* sequence of rows           (class ThreadSubscription)
    now,                 \* the clock, datetime.datetime.now(), in minutes
    drifts,              \* how many out-of-band writes to a counter happened
    events,              \* the calls of issue_update made so far, in order
    last,                \* the operation that ran last: <<name, arguments..., result>>
    pc,                  \* [request -> where the request handling a new reply is]
    local                \* [request -> the model instances the request holds]

dbvars == <<Forum, ForumThread, ForumReply, UserPostCount, ThreadSubscription>>

----------------------------------------------------------------------------
(* The universes of ids, and the bounds *)

Forums == 1..3
Threads == 1..2
Users == 1..2

MaxReplies == 2
MaxCount == 2
MaxViews == 2
MaxLate == 3

\* The interpreter's recursion limit, counted in nested calls of
\* Forum.new_reply or Forum.update_reply_count.  It is larger than any chain
\* of distinct forums.
MaxDepth == 4

\* The rows written by requests that overlap and then follow one another.
MaxOverlap == 3

\* The largest id a ThreadSubscription row is given.
MaxId == 3

\* The requests that run forum_reply_save step by step.
Procs == 1..2

\* timedelta(minutes=30)
EditMinutes == 30

\* request.user of a visitor who is not logged in (AnonymousUser).
AnonymousUser == 0
MaxDrift == 1

\* A null foreign key (null=True).
NULL == 0

----------------------------------------------------------------------------
(* Helpers *)

Min(S) == CHOOSE x \in S : \A y \in S : x <= y

RECURSIVE SumOf(_, _)
\* Sum of f[x] over the finite set S.
SumOf(f, S) == IF S = {} THEN 0
               ELSE LET x == Min(S) IN f[x] + SumOf(f, S \ {x})

\* The database as one value, so that methods are operators from database
\* to database.  raised names the exception that ended the call ("" when it
\* returned), with what was saved before it kept; depth is the number of
\* nested recursive calls under way.
DB == [Forum |-> Forum, ForumThread |-> ForumThread, ForumReply |-> ForumReply,
       UserPostCount |-> UserPostCount, ThreadSubscription |-> ThreadSubscription,
       raised |-> "", depth |-> 0]

\* The stored rows of D.
Tables(D) == [D EXCEPT !.raised = "", !.depth = 0]

Commit(D) ==
    /\ Forum' = D.Forum
    /\ ForumThread' = D.ForumThread
    /\ ForumReply' = D.ForumReply
    /\ UserPostCount' = D.UserPostCount
    /\ ThreadSubscription' = D.ThreadSubscription

\* Related managers: forum.subforums, forum.threads, thread.replies,
\* thread.subscriptions.
subforums(D, f) == {g \in DOMAIN D.Forum : D.Forum[g].parent = f}
threads(D, f) == {t \in DOMAIN D.ForumThread : D.ForumThread[t].forum = f}
replies(D, t) == {r \in DOMAIN D.ForumReply : D.ForumReply[r].thread = t}
subscriptions(D, t) ==
    {s \in DOMAIN D.ThreadSubscription : D.ThreadSubscription[s].thread = t}

----------------------------------------------------------------------------
(* Forum methods *)

\* Forum.new_reply, lines 89-91: the changes made to the instance.
Forum_new_reply_row(self, reply) ==
    [self EXCEPT !.reply_count = @ + 1,
                 !.last_modified = reply.created,
                 !.last_reply = reply.id]

\* A Forum.new_reply that stops at the owning forum.
Forum_new_reply_no_parent(D, f, reply) ==
    [D EXCEPT !.Forum[f] = Forum_new_reply_row(D.Forum[f], reply)]

RECURSIVE Forum_new_reply(_, _, _)
\* Forum.new_reply on the forum with id f, the instance being read from the
\* database when the foreign key (thread.forum, self.parent) is followed.
Forum_new_reply(D, f, reply) ==
    IF D.depth >= MaxDepth THEN [D EXCEPT !.raised = "RecursionError"]
    ELSE LET self == Forum_new_reply_row(D.Forum[f], reply)
             D1 == [D EXCEPT !.Forum[f] = self,                \* self.save()
                             !.depth = @ + 1]
         IN  IF self.parent # NULL
             THEN [Forum_new_reply(D1, self.parent, reply)
                      EXCEPT !.depth = D.depth]
             ELSE [D1 EXCEPT !.depth = D.depth]

\* ForumThread.update_reply_count
ForumThread_update_reply_count(D, t) ==
    LET self == [D.ForumThread[t] EXCEPT
                    !.reply_count = Cardinality(replies(D, t))]
    IN  [D EXCEPT !.ForumThread[t] = self]

RECURSIVE Forum_update_reply_count(_, _)
RECURSIVE SubforumsLoop(_, _, _)
RECURSIVE ThreadsLoop(_, _, _)

\* A subforum loop that adds the stored counts without recomputing them.
SubforumsLoop_stored(D, todo, reply_count) ==
    [db |-> D,
     reply_count |-> reply_count
                     + SumOf([g \in todo |-> D.Forum[g].reply_count], todo)]

\* for forum in self.subforums.all(): forum.update_reply_count();
\*     reply_count += forum.reply_count
\* The result is the database and the running sum.
SubforumsLoop(D, todo, reply_count) ==
    IF todo = {} THEN [db |-> D, reply_count |-> reply_count]
    ELSE LET g == Min(todo)
             D1 == Forum_update_reply_count(D, g)
         IN  IF D1.raised # "" THEN [db |-> D1, reply_count |-> reply_count]
             ELSE SubforumsLoop(D1, todo \ {g},
                                reply_count + D1.Forum[g].reply_count)

\* for thread in self.threads.all(): thread.update_reply_count();
\*     reply_count += thread.reply_count
ThreadsLoop(D, todo, reply_count) ==
    IF todo = {} THEN [db |-> D, reply_count |-> reply_count]
    ELSE LET t == Min(todo)
             D1 == ForumThread_update_reply_count(D, t)
         IN  ThreadsLoop(D1, todo \ {t},
                         reply_count + D1.ForumThread[t].reply_count)

\* A Forum.update_reply_count that counts the forum's own threads only.
Forum_update_reply_count_own_threads(D, f) ==
    LET b == ThreadsLoop(D, threads(D, f), 0)
    IN  [b.db EXCEPT !.Forum[f] =
            [D.Forum[f] EXCEPT !.reply_count = b.reply_count]]

\* Forum.update_reply_count.  self is the row as read when the method is
\* called; on a tree nothing writes that row before self.save().  When the
\* subforums lead back to the forum the recursion ends at the interpreter's
\* limit, before this forum's threads and its own row are saved.
Forum_update_reply_count(D, f) ==
    IF D.depth >= MaxDepth THEN [D EXCEPT !.raised = "RecursionError"]
    ELSE LET self == D.Forum[f]
             a == SubforumsLoop([D EXCEPT !.depth = @ + 1], subforums(D, f), 0)
             b == ThreadsLoop(a.db, threads(a.db, f), a.reply_count)
         IN  IF a.db.raised # "" THEN [a.db EXCEPT !.depth = D.depth]
             ELSE [b.db EXCEPT
                      !.Forum[f] = [self EXCEPT !.reply_count = b.reply_count],
                      !.depth = D.depth]

\* A Forum.update_view_count that adds the view counts of the subforums.
Forum_update_view_count_subforums(D, f) ==
    LET self == D.Forum[f]
        view_count == SumOf([t \in threads(D, f) |->
                                D.ForumThread[t].view_count], threads(D, f))
                      + SumOf([g \in subforums(D, f) |->
                                D.Forum[g].view_count], subforums(D, f))
    IN  [D EXCEPT !.Forum[f] = [self EXCEPT !.view_count = view_count]]

\* A Forum.update_view_count whose sum starts from the stored value.
Forum_update_view_count_accumulating(D, f) ==
    LET self == D.Forum[f]
        view_count == self.view_count
                      + SumOf([t \in threads(D, f) |->
                                D.ForumThread[t].view_count], threads(D, f))
    IN  [D EXCEPT !.Forum[f] = [self EXCEPT !.view_count = view_count]]

\* Forum.update_view_count
Forum_update_view_count(D, f) ==
    LET self == D.Forum[f]
        view_count == SumOf([t \in threads(D, f) |->
                                D.ForumThread[t].view_count], threads(D, f))
    IN  [D EXCEPT !.Forum[f] = [self EXCEPT !.view_count = view_count]]

RECURSIVE Forum_inc_views_chain(_, _)
\* A Forum.inc_views that goes on with the parent, as new_reply does.
Forum_inc_views_chain(D, f) ==
    LET self == [D.Forum[f] EXCEPT !.view_count = @ + 1]
        D1 == [D EXCEPT !.Forum[f] = self]
    IN  IF self.parent # NULL THEN Forum_inc_views_chain(D1, self.parent)
        ELSE D1

\* Forum.inc_views
Forum_inc_views(D, f) ==
    [D EXCEPT !.Forum[f] = [D.Forum[f] EXCEPT !.view_count = @ + 1]]

----------------------------------------------------------------------------
(* ForumThread methods *)

\* A ForumThread.new_reply that leaves reply_count as it is.
ForumThread_new_reply_row_no_count(self, reply) ==
    [self EXCEPT !.last_modified = reply.created,
                 !.last_reply = reply.id]

\* ForumThread.new_reply, lines 156-158: the changes made to the instance.
ForumThread_new_reply_row(self, reply) ==
    [self EXCEPT !.reply_count = @ + 1,
                 !.last_modified = reply.created,
                 !.last_reply = reply.id]

\* ForumThread.new_reply
ForumThread_new_reply(D, t, reply) ==
    LET self == ForumThread_new_reply_row(D.ForumThread[t], reply)
        D1 == [D EXCEPT !.ForumThread[t] = self]               \* self.save()
    IN  Forum_new_reply(D1, self.forum, reply)

\* ForumThread.inc_views
ForumThread_inc_views(D, t) ==
    LET self == [D.ForumThread[t] EXCEPT !.view_count = @ + 1]
        D1 == [D EXCEPT !.ForumThread[t] = self]
    IN  Forum_inc_views(D1, self.forum)

\* ForumThread.update_subscriber_count
ForumThread_update_subscriber_count(D, t) ==
    LET self == [D.ForumThread[t] EXCEPT
                    !.subscriber_count = Cardinality(subscriptions(D, t))]
    IN  [D EXCEPT !.ForumThread[t] = self]

----------------------------------------------------------------------------
(* Signal handlers *)

\* The UserPostCount rows of a user.
post_count_rows(D, user) ==
    {i \in DOMAIN D.UserPostCount : D.UserPostCount[i].user = user}

\* A get_or_create that never looks for an existing row.
UserPostCount_always_create(D, user) ==
    [db |-> [D EXCEPT !.UserPostCount =
                Append(@, [user |-> user, count |-> 0])],
     pk |-> Len(D.UserPostCount) + 1]

\* UserPostCount.objects.get_or_create(user=user): the index of the row
\* found, or of the row created with the default count of 0.  get() raises
\* MultipleObjectsReturned when the user has more than one row (user is a
\* plain ForeignKey, not unique).
UserPostCount_get_or_create(D, user) ==
    IF Cardinality(post_count_rows(D, user)) > 1
    THEN [db |-> [D EXCEPT !.raised = "MultipleObjectsReturned"], pk |-> NULL]
    ELSE IF post_count_rows(D, user) # {}
    THEN [db |-> D, pk |-> Min(post_count_rows(D, user))]
    ELSE [db |-> [D EXCEPT !.UserPostCount =
                      Append(@, [user |-> user, count |-> 0])],
          pk |-> Len(D.UserPostCount) + 1]

\* instance=None, the default of the handlers' parameter: no row.
None == [id |-> NULL]

\* forum_reply_save, the post_save handler of ForumReply.
forum_reply_save(D, instance, created) ==
    IF instance.id # NULL /\ created
    THEN LET D1 == ForumThread_new_reply(D, instance.thread, instance)
             g == UserPostCount_get_or_create(D1, instance.author)
         IN  IF D1.raised # "" THEN D1
             ELSE IF g.db.raised # "" THEN g.db
             ELSE [g.db EXCEPT !.UserPostCount[g.pk].count = @ + 1]
    ELSE D

\* forum_subscription_update, the post_save and post_delete handler of
\* ThreadSubscription.  post_delete sends no "created" argument, so the
\* parameter keeps its default, False.
forum_subscription_update(D, instance, created) ==
    IF instance.id # NULL /\ created
    THEN ForumThread_update_subscriber_count(D, instance.thread)
    ELSE D

----------------------------------------------------------------------------
(* Subscriptions *)

\* DELETE of the row with the given id; without such a row nothing is
\* deleted.
DeleteId(rows, id) ==
    LET Kept(row) == row.id # id
    IN  SelectSeq(rows, Kept)

\* The id an INSERT is given.  The id column is an integer primary key,
\* for which sqlite hands out the largest id of the table + 1: the id of a
\* deleted last row is handed out again.  The rows are in the order of
\* their ids.
NextId(rows) == IF rows = <<>> THEN 1 ELSE rows[Len(rows)].id + 1

\* The positions of the rows of the pair; unique_together (lines 213-214)
\* allows one row at most.
subscription_rows(D, t, user) ==
    {i \in DOMAIN D.ThreadSubscription :
        /\ D.ThreadSubscription[i].thread = t
        /\ D.ThreadSubscription[i].user = user}

\* ThreadSubscription.objects.get(thread=t, user=user): the row's id, or
\* the exception raised.
ThreadSubscription_get(D, t, user) ==
    LET rows == subscription_rows(D, t, user)
    IN  IF rows = {} THEN [pk |-> NULL, raised |-> "DoesNotExist"]
        ELSE [pk |-> D.ThreadSubscription[Min(rows)].id, raised |-> ""]

\* A create in place of get_or_create: the INSERT of a pair that has a row
\* is refused (unique_together) and IntegrityError leaves the call.
ThreadSubscription_always_create(D, t, user) ==
    LET instance == [id |-> NextId(D.ThreadSubscription), thread |-> t,
                     user |-> user]
        D1 == [D EXCEPT !.ThreadSubscription = Append(@, instance)]
    IN  IF subscription_rows(D, t, user) # {}
        THEN [db |-> D, created |-> FALSE, raised |-> "IntegrityError"]
        ELSE [db |-> forum_subscription_update(D1, instance, TRUE),
              created |-> TRUE, raised |-> ""]

\* ThreadSubscription.objects.get_or_create(thread=t, user=user): the row
\* is looked up and, when there is none, saved, which sends post_save with
\* created=True to forum_subscription_update.
ThreadSubscription_get_or_create(D, t, user) ==
    LET g == ThreadSubscription_get(D, t, user)
    IN  IF g.raised = ""
        THEN [db |-> D, created |-> FALSE, raised |-> ""]
        ELSE LET instance == [id |-> NextId(D.ThreadSubscription),
                              thread |-> t, user |-> user]
                 D1 == [D EXCEPT !.ThreadSubscription = Append(@, instance)]
             IN  [db |-> forum_subscription_update(D1, instance, TRUE),
                  created |-> TRUE, raised |-> ""]

\* ForumThread.subscribe
ForumThread_subscribe(D, t, user) ==
    ThreadSubscription_get_or_create(D, t, user)

\* An unsubscribe without the except clause.
ForumThread_unsubscribe_no_except(D, t, user) ==
    LET g == ThreadSubscription_get(D, t, user)
    IN  IF g.raised # "" THEN [db |-> D, raised |-> g.raised]
        ELSE [db |-> [D EXCEPT !.ThreadSubscription = DeleteId(@, g.pk)],
              raised |-> ""]

\* ForumThread.unsubscribe: DoesNotExist is caught; subscription.delete()
\* removes the row and sends post_delete to forum_subscription_update,
\* whose "created" parameter then has its default.
ForumThread_unsubscribe(D, t, user) ==
    LET g == ThreadSubscription_get(D, t, user)
    IN  IF g.raised = "DoesNotExist" THEN [db |-> D, raised |-> ""]
        ELSE LET instance == [id |-> g.pk, thread |-> t, user |-> user]
                 D1 == [D EXCEPT !.ThreadSubscription = DeleteId(@, g.pk)]
             IN  [db |-> forum_subscription_update(D1, instance, FALSE),
                  raised |-> ""]

----------------------------------------------------------------------------
(* The edit window *)

\* An editable that still allows the edit at created + 30 minutes.
ForumPost_editable_inclusive(self, user, clock) ==
    IF user = self.author
    THEN IF clock <= self.created + EditMinutes THEN TRUE ELSE FALSE
    ELSE FALSE

\* ForumPost.editable, clock being what datetime.datetime.now() returns.
ForumPost_editable(self, user, clock) ==
    IF user = self.author
    THEN IF clock < self.created + EditMinutes THEN TRUE ELSE FALSE
    ELSE FALSE

----------------------------------------------------------------------------
(* Initial state: the forums and threads an administrator and the views    *)
(* have created, with the field defaults, and no reply yet.                *)

\* Forum.parent is a nullable foreign key to "self" that nothing validates:
\* a forum is created under a forum that exists, and a later edit can name
\* any forum as its parent, itself or a descendant included.
ParentMaps == [Forums -> Forums \cup {NULL}]

\* Threads are interchangeable, so they are numbered by owning forum.
ForumMaps == {m \in [Threads -> Forums] :
                  \A s, t \in Threads : s < t => m[s] <= m[t]}

\* What a request holds before it has read anything.
NoLocals == [reply |-> None, thread |-> None, forum_id |-> NULL,
             forum |-> None, post_count_id |-> NULL, post_count |-> None,
             target |-> NULL, count |-> 0, depth |-> 0, user |-> NULL,
             stack |-> <<>>, subscription |-> None, created |-> FALSE]

ForumInit(p) ==
    [f \in Forums |->
        [parent |-> p[f], last_modified |-> 0, last_reply |-> NULL,
         view_count |-> 0, reply_count |-> 0]]

ForumThreadInit(m) ==
    [t \in Threads |->
        [forum |-> m[t], author |-> 1, created |-> 0,
         last_modified |-> 0, last_reply |-> NULL,
         view_count |-> 0, reply_count |-> 0, subscriber_count |-> 0]]

Init ==
    /\ \E p \in ParentMaps : Forum = ForumInit(p)
    /\ \E m \in ForumMaps : ForumThread = ForumThreadInit(m)
    /\ ForumReply = <<>>
    /\ UserPostCount = <<>>
    /\ ThreadSubscription = <<>>
    /\ now = 1
    /\ drifts = 0
    /\ events = <<>>
    /\ last = <<"init">>
    /\ pc = [p \in Procs |-> "idle"]
    /\ local = [p \in Procs |-> NoLocals]

\* The initial states whose forums form a forest, one numbering of each
\* shape: a parent has a smaller id than its subforum.
TreeNumbered ==
    \A f \in Forums : Forum[f].parent \in {NULL} \cup {g \in Forums : g < f}

InitTree == Init /\ TreeNumbered

----------------------------------------------------------------------------
(* Operations, each run to completion *)

\* issue_update(kind, **kwargs): the call handed to the activity events
\* framework, which is a no-op here; E is the record of the calls made.
issue_update(E, kind, user, object) ==
    Append(E, [kind |-> kind, user |-> user, object |-> object])

\* A reply notification that also announces a thread.
notify_forum_post_both(E, instance) ==
    issue_update(issue_update(E, "forum_post", instance.author, instance.id),
                 "forum_thread", instance.author, instance.thread)

\* The notification of a created reply: kind "forum_post", user, post.
notify_forum_post(E, instance) ==
    issue_update(E, "forum_post", instance.author, instance.id)

\* The notification of a created thread: kind "forum_thread", user, thread.
notify_forum_thread(E, instance) ==
    issue_update(E, "forum_thread", instance.author, instance.id)

\* A new ForumReply is saved (created defaults to the clock), and the
\* post_save signal runs forum_reply_save with created=True.  "last" keeps
\* the exception that left save() ("" for none).  The clock has moved on by
\* the time of the next operation.
SaveNewReply(t, u) ==
    /\ Len(ForumReply) < MaxReplies
    /\ LET id == Len(ForumReply) + 1
           row == [thread |-> t, author |-> u, created |-> now]
           instance == [id |-> id, thread |-> t, author |-> u, created |-> now]
           D1 == [DB EXCEPT !.ForumReply = Append(@, row)]
           D2 == forum_reply_save(D1, instance, TRUE)
       IN  /\ Commit(D2)
           /\ last' = <<"new_reply", id, D2.raised>>
    /\ now' = now + 1
    /\ UNCHANGED <<drifts, pc, local>>

\* reply.save() on a new reply.  Nothing in the models calls issue_update.
CreateReply(t, u) ==
    /\ SaveNewReply(t, u)
    /\ UNCHANGED events

\* The reply view: the reply is saved and, when save() has returned, the
\* activity sink is told.  An exception out of save() ends the request.
PostReply(t, u) ==
    /\ SaveNewReply(t, u)
    /\ LET instance == [id |-> last'[2], thread |-> t, author |-> u,
                        created |-> now]
       IN  events' = IF last'[3] = ""
                     THEN notify_forum_post(events, instance) ELSE events

\* A new ForumThread row is saved with the field defaults.  No post_save
\* receiver is connected to ForumThread, so no other row is written.
CreateThread(f, u) ==
    /\ Len(ForumThread) < Cardinality(Threads)
    /\ LET id == Len(ForumThread) + 1
           row == [forum |-> f, author |-> u, created |-> now,
                   last_modified |-> now, last_reply |-> NULL,
                   view_count |-> 0, reply_count |-> 0,
                   subscriber_count |-> 0]
       IN  /\ ForumThread' = Append(ForumThread, row)
           /\ last' = <<"new_thread", id>>
    /\ now' = now + 1
    /\ UNCHANGED <<Forum, ForumReply, UserPostCount, ThreadSubscription,
                   drifts, events, pc, local>>

\* The thread view: the thread is saved and the activity sink is told.
PostThread(f, u) ==
    /\ Len(ForumThread) < Cardinality(Threads)
    /\ LET id == Len(ForumThread) + 1
           row == [forum |-> f, author |-> u, created |-> now,
                   last_modified |-> now, last_reply |-> NULL,
                   view_count |-> 0, reply_count |-> 0,
                   subscriber_count |-> 0]
           instance == [id |-> id, forum |-> f, author |-> u, created |-> now]
       IN  /\ ForumThread' = Append(ForumThread, row)
           /\ events' = notify_forum_thread(events, instance)
           /\ last' = <<"new_thread", id>>
    /\ now' = now + 1
    /\ UNCHANGED <<Forum, ForumReply, UserPostCount, ThreadSubscription,
                   drifts, pc, local>>

\* forum.update_reply_count(); the last element of "last" tells whether the
\* call changed a stored value.
UpdateReplyCount(f) ==
    LET D1 == Forum_update_reply_count(DB, f)
    IN  /\ Commit(D1)
        /\ last' = <<"update_reply_count", f, Tables(D1) # DB, D1.raised>>
        /\ UNCHANGED <<now, drifts, events, pc, local>>

\* reply_count is an IntegerField: a write from outside these methods (the
\* admin, a script) can store any number in it.
DriftForumReplyCount(f, v) ==
    /\ drifts < MaxDrift
    /\ Forum[f].reply_count # v
    /\ Forum' = [Forum EXCEPT ![f].reply_count = v]
    /\ drifts' = drifts + 1
    /\ last' = <<"drift">>
    /\ UNCHANGED <<ForumThread, ForumReply, UserPostCount, ThreadSubscription,
                   now, events, pc, local>>

DriftThreadReplyCount(t, v) ==
    /\ drifts < MaxDrift
    /\ ForumThread[t].reply_count # v
    /\ ForumThread' = [ForumThread EXCEPT ![t].reply_count = v]
    /\ drifts' = drifts + 1
    /\ last' = <<"drift">>
    /\ UNCHANGED <<Forum, ForumReply, UserPostCount, ThreadSubscription,
                   now, events, pc, local>>

\* thread.subscribe(user); "last" keeps whether a row was created and the
\* exception that left the call ("" for none).
Subscribe(t, u) ==
    LET g == ForumThread_subscribe(DB, t, u)
    IN  /\ subscription_rows(DB, t, u) = {}
              => NextId(ThreadSubscription) <= MaxId
        /\ Commit(g.db)
        /\ last' = <<"subscribe", t, u, g.created, g.raised>>
        /\ UNCHANGED <<now, drifts, events, pc, local>>

\* A ForumThread.subscribed with no test for the anonymous user.
ForumThread_subscribed_no_anonymous(D, t, user) ==
    LET g == ThreadSubscription_get(D, t, user)
    IN  [result |-> g.raised = "", raised |-> "", queries |-> 1]

\* ForumThread.subscribed, lines 176-184.  queries is the number of
\* ThreadSubscription lookups made; DoesNotExist is caught.
ForumThread_subscribed(D, t, user) ==
    IF user = AnonymousUser
    THEN [result |-> FALSE, raised |-> "", queries |-> 0]
    ELSE LET g == ThreadSubscription_get(D, t, user)
         IN  IF g.raised = "DoesNotExist"
             THEN [result |-> FALSE, raised |-> "", queries |-> 1]
             ELSE [result |-> TRUE, raised |-> "", queries |-> 1]

\* thread.subscribed(user): a read, nothing is saved.
Subscribed(t, u) ==
    LET g == ForumThread_subscribed(DB, t, u)
    IN  /\ last' = <<"subscribed", t, u, g.result, g.queries, g.raised>>
        /\ UNCHANGED <<dbvars, now, drifts, events, pc, local>>

\* thread.unsubscribe(user); "last" keeps whether the user had a row, and
\* the exception that left the call ("" for none).
Unsubscribe(t, u) ==
    LET g == ForumThread_unsubscribe(DB, t, u)
    IN  /\ Commit(g.db)
        /\ last' = <<"unsubscribe", t, u, subscription_rows(DB, t, u) # {},
                     g.raised>>
        /\ UNCHANGED <<now, drifts, events, pc, local>>

\* thread.update_subscriber_count()
UpdateSubscriberCount(t) ==
    LET D1 == ForumThread_update_subscriber_count(DB, t)
    IN  /\ Commit(D1)
        /\ last' = <<"update_subscriber_count", t, D1 # DB>>
        /\ UNCHANGED <<now, drifts, events, pc, local>>

\* thread.inc_views()
ThreadIncViews(t) ==
    /\ ForumThread[t].view_count < MaxViews
    /\ Forum[ForumThread[t].forum].view_count < MaxViews
    /\ Commit(ForumThread_inc_views(DB, t))
    /\ last' = <<"inc_views", "thread", t>>
    /\ UNCHANGED <<now, drifts, events, pc, local>>

\* forum.inc_views()
ForumIncViews(f) ==
    /\ Forum[f].view_count < MaxViews
    /\ Commit(Forum_inc_views(DB, f))
    /\ last' = <<"inc_views", "forum", f>>
    /\ UNCHANGED <<now, drifts, events, pc, local>>

\* forum.update_view_count()
UpdateViewCount(f) ==
    LET D1 == Forum_update_view_count(DB, f)
    IN  /\ Commit(D1)
        /\ last' = <<"update_view_count", f, D1 # DB>>
        /\ UNCHANGED <<now, drifts, events, pc, local>>

\* post.editable(user) for a thread or a reply, at the current clock.
Editable(kind, id, user) ==
    /\ kind = "reply" => id \in DOMAIN ForumReply
    /\ LET self == IF kind = "thread" THEN ForumThread[id] ELSE ForumReply[id]
       IN  last' = <<"editable", kind, id, user,
                     ForumPost_editable(self, user, now)>>
    /\ UNCHANGED <<dbvars, now, drifts, events, pc, local>>

\* A minute passes.
Tick ==
    /\ now < EditMinutes + MaxLate
    /\ now' = now + 1
    /\ UNCHANGED <<dbvars, drifts, events, last, pc, local>>

----------------------------------------------------------------------------
(* forum_reply_save, one database operation at a time.  Nothing in the     *)
(* module opens a transaction: every save() is committed when it returns.  *)

\* The view saves the ForumReply; post_save calls forum_reply_save.
ReplySave(p, t, u) ==
    /\ pc[p] = "idle"
    /\ LET id == Len(ForumReply) + 1
       IN  /\ ForumReply' = Append(ForumReply,
                                   [thread |-> t, author |-> u, created |-> now])
           /\ local' = [local EXCEPT ![p].reply =
                           [id |-> id, thread |-> t, author |-> u,
                            created |-> now]]
    /\ now' = now + 1
    /\ pc' = [pc EXCEPT ![p] = "load_thread"]
    /\ UNCHANGED <<Forum, ForumThread, UserPostCount, ThreadSubscription,
                   drifts, events, last>>

\* thread = instance.thread
LoadThread(p) ==
    /\ pc[p] = "load_thread"
    /\ local' = [local EXCEPT ![p].thread = ForumThread[local[p].reply.thread]]
    /\ pc' = [pc EXCEPT ![p] = "save_thread"]
    /\ UNCHANGED <<dbvars, now, drifts, events, last>>

\* ForumThread.new_reply, lines 156-159: the instance is changed and saved.
SaveThread(p) ==
    /\ pc[p] = "save_thread"
    /\ LET self == ForumThread_new_reply_row(local[p].thread, local[p].reply)
       IN  /\ ForumThread' = [ForumThread EXCEPT ![local[p].reply.thread] = self]
           /\ local' = [local EXCEPT ![p].thread = self,
                                     ![p].forum_id = self.forum]
    /\ pc' = [pc EXCEPT ![p] = "load_forum"]
    /\ UNCHANGED <<Forum, ForumReply, UserPostCount, ThreadSubscription,
                   now, drifts, events, last>>

\* self.forum (line 160) and self.parent (line 93): the forum is read.
LoadForum(p) ==
    /\ pc[p] = "load_forum"
    /\ local' = [local EXCEPT ![p].forum = Forum[local[p].forum_id]]
    /\ pc' = [pc EXCEPT ![p] = "save_forum"]
    /\ UNCHANGED <<dbvars, now, drifts, events, last>>

\* A Forum.new_reply that saves the forum and never goes on to a parent.
SaveForum_no_walk(p) ==
    /\ pc[p] = "save_forum"
    /\ LET self == Forum_new_reply_row(local[p].forum, local[p].reply)
       IN  /\ Forum' = [Forum EXCEPT ![local[p].forum_id] = self]
           /\ local' = [local EXCEPT ![p].forum = self]
    /\ pc' = [pc EXCEPT ![p] = "get_post_count"]
    /\ UNCHANGED <<ForumThread, ForumReply, UserPostCount, ThreadSubscription,
                   now, drifts, events, last>>

\* Forum.new_reply, lines 89-94: the instance is changed and saved, and the
\* walk goes on with the parent when there is one.
SaveForum(p) ==
    /\ pc[p] = "save_forum"
    /\ LET self == Forum_new_reply_row(local[p].forum, local[p].reply)
       IN  /\ Forum' = [Forum EXCEPT ![local[p].forum_id] = self]
           /\ IF self.parent # NULL /\ local[p].depth + 1 >= MaxDepth
              THEN /\ local' = [local EXCEPT ![p].forum = self]
                   /\ pc' = [pc EXCEPT ![p] = "failed"]      \* RecursionError
              ELSE IF self.parent # NULL
              THEN /\ local' = [local EXCEPT ![p].forum = self,
                                             ![p].forum_id = self.parent,
                                             ![p].depth = @ + 1]
                   /\ pc' = [pc EXCEPT ![p] = "load_forum"]
              ELSE /\ local' = [local EXCEPT ![p].forum = self]
                   /\ pc' = [pc EXCEPT ![p] = "get_post_count"]
    /\ UNCHANGED <<ForumThread, ForumReply, UserPostCount, ThreadSubscription,
                   now, drifts, events, last>>

\* get_or_create, the lookup: line 236.
GetPostCount(p) ==
    /\ pc[p] = "get_post_count"
    /\ LET rows == post_count_rows(DB, local[p].reply.author)
       IN  IF rows = {}
           THEN /\ pc' = [pc EXCEPT ![p] = "create_post_count"]
                /\ UNCHANGED local
           ELSE IF Cardinality(rows) > 1
           THEN /\ pc' = [pc EXCEPT ![p] = "failed"]   \* MultipleObjectsReturned
                /\ UNCHANGED local
           ELSE /\ pc' = [pc EXCEPT ![p] = "save_post_count"]
                /\ local' = [local EXCEPT
                                ![p].post_count_id = Min(rows),
                                ![p].post_count = UserPostCount[Min(rows)]]
    /\ UNCHANGED <<dbvars, now, drifts, events, last>>

\* get_or_create, the creation with the default count: line 236.
CreatePostCount(p) ==
    /\ pc[p] = "create_post_count"
    /\ LET row == [user |-> local[p].reply.author, count |-> 0]
       IN  /\ UserPostCount' = Append(UserPostCount, row)
           /\ local' = [local EXCEPT
                           ![p].post_count_id = Len(UserPostCount) + 1,
                           ![p].post_count = row]
    /\ pc' = [pc EXCEPT ![p] = "save_post_count"]
    /\ UNCHANGED <<Forum, ForumThread, ForumReply, ThreadSubscription,
                   now, drifts, events, last>>

\* post_count.count += 1; post_count.save(): lines 237-238.
SavePostCount(p) ==
    /\ pc[p] = "save_post_count"
    /\ LET row == [local[p].post_count EXCEPT !.count = @ + 1]
       IN  /\ UserPostCount' = [UserPostCount EXCEPT
                                  ![local[p].post_count_id] = row]
           /\ local' = [local EXCEPT ![p].post_count = row]
    /\ pc' = [pc EXCEPT ![p] = "done"]
    /\ UNCHANGED <<Forum, ForumThread, ForumReply, ThreadSubscription,
                   now, drifts, events, last>>

\* The database operation the request is about to run raises (the storage
\* fails); no except clause catches it, so the request ends there, with
\* what it has saved so far committed.
StorageFailure(p) ==
    /\ pc[p] \in {"load_thread", "save_thread", "load_forum", "save_forum",
                   "get_post_count", "create_post_count", "save_post_count"}
    /\ pc' = [pc EXCEPT ![p] = "failed"]
    /\ UNCHANGED <<dbvars, now, drifts, events, last, local>>

Running(p) == pc[p] \notin {"idle", "done", "failed"}

\* The request is over, with a response or with the exception; the worker
\* takes the next one.
Return(p) ==
    /\ pc[p] \in {"done", "failed"}
    /\ pc' = [pc EXCEPT ![p] = "idle"]
    /\ local' = [local EXCEPT ![p] = NoLocals]
    /\ UNCHANGED <<dbvars, now, drifts, events, last>>

Step(p) ==
    \/ LoadThread(p)
    \/ SaveThread(p)
    \/ LoadForum(p)
    \/ SaveForum(p)
    \/ GetPostCount(p)
    \/ CreatePostCount(p)
    \/ SavePostCount(p)

----------------------------------------------------------------------------
(* inc_views and the reconciliation methods, one database operation at a   *)
(* time.  A model instance is a copy of its row, and save() writes every   *)
(* field of the copy.                                                      *)

\* A request fetches a thread to show it.
ThreadView(p, t) ==
    /\ pc[p] = "idle"
    /\ local' = [local EXCEPT ![p].target = t, ![p].thread = ForumThread[t]]
    /\ pc' = [pc EXCEPT ![p] = "inc_thread"]
    /\ UNCHANGED <<dbvars, now, drifts, events, last>>

\* ForumThread.inc_views, lines 143-144.
IncThread(p) ==
    /\ pc[p] = "inc_thread"
    /\ LET self == [local[p].thread EXCEPT !.view_count = @ + 1]
       IN  /\ ForumThread' = [ForumThread EXCEPT ![local[p].target] = self]
           /\ local' = [local EXCEPT ![p].thread = self,
                                     ![p].forum_id = self.forum]
    /\ pc' = [pc EXCEPT ![p] = "inc_load_forum"]
    /\ UNCHANGED <<Forum, ForumReply, UserPostCount, ThreadSubscription,
                   now, drifts, events, last>>

\* self.forum, line 145: the forum is read.
IncLoadForum(p) ==
    /\ pc[p] = "inc_load_forum"
    /\ local' = [local EXCEPT ![p].forum = Forum[local[p].forum_id]]
    /\ pc' = [pc EXCEPT ![p] = "inc_forum"]
    /\ UNCHANGED <<dbvars, now, drifts, events, last>>

\* Forum.inc_views, lines 66-67.
IncForum(p) ==
    /\ pc[p] = "inc_forum"
    /\ LET self == [local[p].forum EXCEPT !.view_count = @ + 1]
       IN  /\ Forum' = [Forum EXCEPT ![local[p].forum_id] = self]
           /\ local' = [local EXCEPT ![p].forum = self]
    /\ pc' = [pc EXCEPT ![p] = "done"]
    /\ UNCHANGED <<ForumThread, ForumReply, UserPostCount, ThreadSubscription,
                   now, drifts, events, last>>

\* A request fetches a forum to show it, and Forum.inc_views is next.
ForumView(p, f) ==
    /\ pc[p] = "idle"
    /\ local' = [local EXCEPT ![p].forum_id = f, ![p].forum = Forum[f]]
    /\ pc' = [pc EXCEPT ![p] = "inc_forum"]
    /\ UNCHANGED <<dbvars, now, drifts, events, last>>

IncStep(p) == IncThread(p) \/ IncLoadForum(p) \/ IncForum(p)

\* A maintenance run fetches a thread to call update_reply_count on it.
ReconcileThread(p, t) ==
    /\ pc[p] = "idle"
    /\ local' = [local EXCEPT ![p].target = t, ![p].thread = ForumThread[t]]
    /\ pc' = [pc EXCEPT ![p] = "count_replies"]
    /\ UNCHANGED <<dbvars, now, drifts, events, last>>

\* self.replies.all().count(), line 148.
CountReplies(p) ==
    /\ pc[p] = "count_replies"
    /\ local' = [local EXCEPT
                    ![p].count = Cardinality(replies(DB, local[p].target))]
    /\ pc' = [pc EXCEPT ![p] = "save_reply_count"]
    /\ UNCHANGED <<dbvars, now, drifts, events, last>>

\* self.reply_count = ...; self.save(): lines 148-149.
SaveReplyCount(p) ==
    /\ pc[p] = "save_reply_count"
    /\ LET self == [local[p].thread EXCEPT !.reply_count = local[p].count]
       IN  /\ ForumThread' = [ForumThread EXCEPT ![local[p].target] = self]
           /\ local' = [local EXCEPT ![p].thread = self]
    /\ pc' = [pc EXCEPT ![p] = "done"]
    /\ UNCHANGED <<Forum, ForumReply, UserPostCount, ThreadSubscription,
                   now, drifts, events, last>>

\* A maintenance run fetches a forum to call update_view_count on it.
ReconcileForum(p, f) ==
    /\ pc[p] = "idle"
    /\ local' = [local EXCEPT ![p].target = f, ![p].forum = Forum[f]]
    /\ pc' = [pc EXCEPT ![p] = "sum_views"]
    /\ UNCHANGED <<dbvars, now, drifts, events, last>>

\* The loop over self.threads.all(), lines 71-73.
SumViews(p) ==
    /\ pc[p] = "sum_views"
    /\ LET own == threads(DB, local[p].target)
       IN  local' = [local EXCEPT ![p].count =
                        SumOf([t \in own |-> ForumThread[t].view_count], own)]
    /\ pc' = [pc EXCEPT ![p] = "save_view_count"]
    /\ UNCHANGED <<dbvars, now, drifts, events, last>>

\* self.view_count = view_count; self.save(): lines 74-75.
SaveViewCount(p) ==
    /\ pc[p] = "save_view_count"
    /\ LET self == [local[p].forum EXCEPT !.view_count = local[p].count]
       IN  /\ Forum' = [Forum EXCEPT ![local[p].target] = self]
           /\ local' = [local EXCEPT ![p].forum = self]
    /\ pc' = [pc EXCEPT ![p] = "done"]
    /\ UNCHANGED <<ForumThread, ForumReply, UserPostCount, ThreadSubscription,
                   now, drifts, events, last>>

ReconcileStep(p) ==
    \/ CountReplies(p) \/ SaveReplyCount(p)
    \/ SumViews(p) \/ SaveViewCount(p)

----------------------------------------------------------------------------
(* Forum.update_reply_count, one database operation at a time.  Every call *)
(* of the method has a frame: the instance it was called on, the rows its  *)
(* two loops still have to visit, and its running sum.                     *)

RECURSIVE Ascending(_)
\* The ids of a set in the order the rows are returned.
Ascending(S) ==
    IF S = {} THEN <<>> ELSE <<Min(S)>> \o Ascending(S \ {Min(S)})

Frame(f, self) ==
    [forum_id |-> f, self |-> self, subforums |-> <<>>, threads |-> <<>>,
     reply_count |-> 0]

\* Where a call goes on once its subforum loop has moved to the rows left.
AfterSubforum(left) ==
    IF left = <<>> THEN "select_threads" ELSE "call_subforum"

\* Where a call goes on once its thread loop has moved to the rows left.
AfterThread(left) ==
    IF left = <<>> THEN "save_forum_count" ELSE "count_thread"

\* A maintenance run fetches a forum to call update_reply_count on it.
ReconcileReplies(p, f) ==
    /\ pc[p] = "idle"
    /\ local' = [local EXCEPT ![p].stack = <<Frame(f, Forum[f])>>]
    /\ pc' = [pc EXCEPT ![p] = "select_subforums"]
    /\ UNCHANGED <<dbvars, now, drifts, events, last>>

\* self.subforums.all(), line 79: the rows are read when the loop starts.
SelectSubforums(p) ==
    /\ pc[p] = "select_subforums"
    /\ LET n == Len(local[p].stack)
           ids == Ascending(subforums(DB, local[p].stack[n].forum_id))
           found == [i \in DOMAIN ids |-> [id |-> ids[i], row |-> Forum[ids[i]]]]
       IN  /\ local' = [local EXCEPT ![p].stack[n].subforums = found]
           /\ pc' = [pc EXCEPT ![p] = AfterSubforum(found)]
    /\ UNCHANGED <<dbvars, now, drifts, events, last>>

\* forum.update_reply_count(), line 80: the call on the instance the loop
\* holds.  At the interpreter's limit the call raises RecursionError, which
\* nothing catches.
CallSubforum(p) ==
    /\ pc[p] = "call_subforum"
    /\ LET stack == local[p].stack
           forum == Head(stack[Len(stack)].subforums)
       IN  IF Len(stack) >= MaxDepth
           THEN /\ pc' = [pc EXCEPT ![p] = "failed"]
                /\ UNCHANGED local
           ELSE /\ local' = [local EXCEPT ![p].stack =
                                Append(stack, Frame(forum.id, forum.row))]
                /\ pc' = [pc EXCEPT ![p] = "select_subforums"]
    /\ UNCHANGED <<dbvars, now, drifts, events, last>>

\* self.threads.all(), line 82: the rows are read when the loop starts.
SelectThreads(p) ==
    /\ pc[p] = "select_threads"
    /\ LET n == Len(local[p].stack)
           ids == Ascending(threads(DB, local[p].stack[n].forum_id))
           found == [i \in DOMAIN ids |->
                        [id |-> ids[i], row |-> ForumThread[ids[i]]]]
       IN  /\ local' = [local EXCEPT ![p].stack[n].threads = found]
           /\ pc' = [pc EXCEPT ![p] = AfterThread(found)]
    /\ UNCHANGED <<dbvars, now, drifts, events, last>>

\* thread.update_reply_count(), line 83: self.replies.all().count().
CountThread(p) ==
    /\ pc[p] = "count_thread"
    /\ LET n == Len(local[p].stack)
           thread == Head(local[p].stack[n].threads)
       IN  local' = [local EXCEPT
                        ![p].count = Cardinality(replies(DB, thread.id))]
    /\ pc' = [pc EXCEPT ![p] = "save_thread_count"]
    /\ UNCHANGED <<dbvars, now, drifts, events, last>>

\* thread.update_reply_count(), line 83: self.save(); then line 84.
SaveThreadCount(p) ==
    /\ pc[p] = "save_thread_count"
    /\ LET n == Len(local[p].stack)
           top == local[p].stack[n]
           thread == Head(top.threads)
           self == [thread.row EXCEPT !.reply_count = local[p].count]
       IN  /\ ForumThread' = [ForumThread EXCEPT ![thread.id] = self]
           /\ local' = [local EXCEPT
                           ![p].stack[n].threads = Tail(top.threads),
                           ![p].stack[n].reply_count = @ + self.reply_count]
           /\ pc' = [pc EXCEPT ![p] = AfterThread(Tail(top.threads))]
    /\ UNCHANGED <<Forum, ForumReply, UserPostCount, ThreadSubscription,
                   now, drifts, events, last>>

\* self.reply_count = reply_count; self.save(): lines 85-86.  The call
\* returns to the loop of its caller, which adds forum.reply_count
\* (line 81), or to the maintenance run.
SaveForumCount(p) ==
    /\ pc[p] = "save_forum_count"
    /\ LET stack == local[p].stack
           n == Len(stack)
           self == [stack[n].self EXCEPT !.reply_count = stack[n].reply_count]
       IN  /\ Forum' = [Forum EXCEPT ![stack[n].forum_id] = self]
           /\ IF n = 1
              THEN /\ local' = [local EXCEPT ![p].stack = <<>>]
                   /\ pc' = [pc EXCEPT ![p] = "done"]
              ELSE LET left == Tail(stack[n - 1].subforums)
                   IN  /\ local' = [local EXCEPT ![p].stack =
                               [SubSeq(stack, 1, n - 1) EXCEPT
                                   ![n - 1].subforums = left,
                                   ![n - 1].reply_count = @ + self.reply_count]]
                       /\ pc' = [pc EXCEPT ![p] = AfterSubforum(left)]
    /\ UNCHANGED <<ForumThread, ForumReply, UserPostCount, ThreadSubscription,
                   now, drifts, events, last>>

ReconcileRepliesStep(p) ==
    \/ SelectSubforums(p) \/ CallSubforum(p) \/ SelectThreads(p)
    \/ CountThread(p) \/ SaveThreadCount(p) \/ SaveForumCount(p)

----------------------------------------------------------------------------
(* subscribe, unsubscribe and update_subscriber_count, one database        *)
(* operation at a time                                                     *)

\* A request fetches a thread to call subscribe(user) on it.
SubscribeRequest(p, t, u) ==
    /\ pc[p] = "idle"
    /\ local' = [local EXCEPT ![p].target = t, ![p].thread = ForumThread[t],
                              ![p].user = u]
    /\ pc' = [pc EXCEPT ![p] = "get_subscription"]
    /\ UNCHANGED <<dbvars, now, drifts, events, last>>

\* get_or_create, the lookup: line 166.  With a row the call is over.
GetSubscription(p) ==
    /\ pc[p] = "get_subscription"
    /\ LET g == ThreadSubscription_get(DB, local[p].target, local[p].user)
       IN  pc' = [pc EXCEPT ![p] =
                    IF g.raised = "DoesNotExist" THEN "create_subscription"
                    ELSE "done"]
    /\ UNCHANGED <<dbvars, now, drifts, events, last, local>>

\* get_or_create, the creation: line 166.  post_save then calls
\* forum_subscription_update, whose instance.thread is the instance that
\* subscribe was called on.  When the pair has got a row since the lookup
\* the INSERT is refused (unique_together, lines 213-214): get_or_create
\* catches the IntegrityError and looks the row up again.
CreateSubscription(p) ==
    /\ pc[p] = "create_subscription"
    /\ IF subscription_rows(DB, local[p].target, local[p].user) # {}
       THEN /\ pc' = [pc EXCEPT ![p] = "get_subscription_again"]
            /\ UNCHANGED <<ThreadSubscription, local>>
       ELSE LET instance == [id |-> NextId(ThreadSubscription),
                             thread |-> local[p].target,
                             user |-> local[p].user]
            IN  /\ ThreadSubscription' = Append(ThreadSubscription, instance)
                /\ local' = [local EXCEPT ![p].subscription = instance,
                                          ![p].created = TRUE]
                /\ pc' = [pc EXCEPT ![p] = "count_subscriptions"]
    /\ UNCHANGED <<Forum, ForumThread, ForumReply, UserPostCount,
                   now, drifts, events, last>>

\* get_or_create, the lookup after a refused INSERT: the row is returned
\* with created=False, and no post_save is sent; when the row is gone
\* again the IntegrityError leaves the call.
GetSubscriptionAgain(p) ==
    /\ pc[p] = "get_subscription_again"
    /\ LET g == ThreadSubscription_get(DB, local[p].target, local[p].user)
       IN  pc' = [pc EXCEPT ![p] =
                    IF g.raised = "DoesNotExist" THEN "failed" ELSE "done"]
    /\ UNCHANGED <<dbvars, now, drifts, events, last, local>>

\* A request fetches a thread to call unsubscribe(user) on it.
UnsubscribeRequest(p, t, u) ==
    /\ pc[p] = "idle"
    /\ local' = [local EXCEPT ![p].target = t, ![p].thread = ForumThread[t],
                              ![p].user = u]
    /\ pc' = [pc EXCEPT ![p] = "get_to_delete"]
    /\ UNCHANGED <<dbvars, now, drifts, events, last>>

\* ThreadSubscription.objects.get, line 170: the row is read, or
\* DoesNotExist is caught and the call returns.
GetToDelete(p) ==
    /\ pc[p] = "get_to_delete"
    /\ LET g == ThreadSubscription_get(DB, local[p].target, local[p].user)
       IN  IF g.raised = "DoesNotExist"
           THEN /\ pc' = [pc EXCEPT ![p] = "done"]
                /\ UNCHANGED local
           ELSE /\ pc' = [pc EXCEPT ![p] = "delete_subscription"]
                /\ local' = [local EXCEPT ![p].subscription =
                                [id |-> g.pk, thread |-> local[p].target,
                                 user |-> local[p].user]]
    /\ UNCHANGED <<dbvars, now, drifts, events, last>>

\* subscription.delete(), line 174: the row with the id that was read is
\* deleted, whatever it holds by now.  post_delete calls
\* forum_subscription_update without created, which does nothing.
DeleteSubscription(p) ==
    /\ pc[p] = "delete_subscription"
    /\ ThreadSubscription' =
          DeleteId(ThreadSubscription, local[p].subscription.id)
    /\ pc' = [pc EXCEPT ![p] = "done"]
    /\ UNCHANGED <<Forum, ForumThread, ForumReply, UserPostCount,
                   now, drifts, events, last, local>>

UnsubscribeStep(p) == GetToDelete(p) \/ DeleteSubscription(p)

\* A maintenance run fetches a thread to call update_subscriber_count on it.
ReconcileSubscribers(p, t) ==
    /\ pc[p] = "idle"
    /\ local' = [local EXCEPT ![p].target = t, ![p].thread = ForumThread[t]]
    /\ pc' = [pc EXCEPT ![p] = "count_subscriptions"]
    /\ UNCHANGED <<dbvars, now, drifts, events, last>>

\* self.subscriptions.count(), line 152.
CountSubscriptions(p) ==
    /\ pc[p] = "count_subscriptions"
    /\ local' = [local EXCEPT ![p].count =
                    Cardinality(subscriptions(DB, local[p].target))]
    /\ pc' = [pc EXCEPT ![p] = "save_subscriber_count"]
    /\ UNCHANGED <<dbvars, now, drifts, events, last>>

\* self.subscriber_count = ...; self.save(): lines 152-153.
SaveSubscriberCount(p) ==
    /\ pc[p] = "save_subscriber_count"
    /\ LET self == [local[p].thread EXCEPT !.subscriber_count = local[p].count]
       IN  /\ ForumThread' = [ForumThread EXCEPT ![local[p].target] = self]
           /\ local' = [local EXCEPT ![p].thread = self]
    /\ pc' = [pc EXCEPT ![p] = "done"]
    /\ UNCHANGED <<Forum, ForumReply, UserPostCount, ThreadSubscription,
                   now, drifts, events, last>>

SubscribeStep(p) ==
    \/ GetSubscription(p) \/ CreateSubscription(p) \/ GetSubscriptionAgain(p)
    \/ CountSubscriptions(p) \/ SaveSubscriberCount(p)

vars == <<Forum, ForumThread, ForumReply, UserPostCount, ThreadSubscription,
          now, drifts, events, last, pc, local>>

\* Replies and reconciliation of the reply counters, one operation at a time.
Next ==
    \/ \E t \in Threads, u \in Users : CreateReply(t, u)
    \/ \E f \in Forums : UpdateReplyCount(f)

Spec == Init /\ [][Next]_vars

\* The same, with counters overwritten from outside.  The reply counters do
\* not depend on who writes a reply, so one author writes them all.
NextDrift ==
    \/ \E t \in Threads : CreateReply(t, 1)
    \/ \E f \in Forums : UpdateReplyCount(f)
    \/ \E f \in Forums, v \in 0..MaxCount : DriftForumReplyCount(f, v)
    \/ \E t \in Threads, v \in 0..MaxCount : DriftThreadReplyCount(t, v)

SpecDrift == InitTree /\ [][NextDrift]_vars

\* Requests that post replies at the same time: their database operations
\* interleave in any order.
NextConc ==
    \/ \E p \in Procs, t \in Threads, u \in Users : ReplySave(p, t, u)
    \/ \E p \in Procs : Step(p)

SpecConc == InitTree /\ [][NextConc]_vars

\* Requests that post replies one after the other, any database operation
\* of which can fail.
NextFail ==
    \/ \E p \in Procs, t \in Threads, u \in Users :
          (\A q \in Procs : ~Running(q)) /\ ReplySave(p, t, u)
    \/ \E p \in Procs : Step(p)
    \/ \E p \in Procs : StorageFailure(p)

SpecFail == InitTree /\ [][NextFail]_vars

\* The edit window: the threads of the initial state and one reply, read by
\* editable as the clock runs.  editable reads no forum, so the forums are
\* all roots.
InitEdit == Init /\ \A f \in Forums : Forum[f].parent = NULL

NextEdit ==
    \/ Tick
    \/ \E t \in Threads, u \in Users : ForumReply = <<>> /\ CreateReply(t, u)
    \/ \E t \in Threads, u \in Users \cup {AnonymousUser} :
          Editable("thread", t, u)
    \/ \E r \in 1..MaxReplies, u \in Users \cup {AnonymousUser} :
          Editable("reply", r, u)

SpecEdit == InitEdit /\ [][NextEdit]_vars

\* Subscriptions, one operation at a time.
NextSub ==
    \/ \E t \in Threads, u \in Users : Subscribe(t, u)
    \/ \E t \in Threads, u \in Users : Unsubscribe(t, u)
    \/ \E t \in Threads : UpdateSubscriberCount(t)

SpecSub == InitTree /\ [][NextSub]_vars

\* One reply, handled step by step, on forums whose parents may form a
\* cycle.  The handler is one synchronous call chain: it keeps running.
NextWalk ==
    \/ \E t \in Threads, u \in Users : ReplySave(1, t, u)
    \/ Step(1)

SpecWalk == Init /\ [][NextWalk]_vars /\ WF_vars(Step(1))

\* A reply is posted while a maintenance run reconciles a counter.
NextConcRecon ==
    \/ \E t \in Threads, u \in Users : ReplySave(1, t, u)
    \/ Step(1)
    \/ \E t \in Threads : ReconcileThread(2, t)
    \/ \E f \in Forums : ReconcileForum(2, f)
    \/ ReconcileStep(2)
    \/ \E f \in Forums : ReconcileReplies(2, f)
    \/ ReconcileRepliesStep(2)
    \/ \E t \in Threads : ReconcileSubscribers(2, t)
    \/ CountSubscriptions(2) \/ SaveSubscriberCount(2)

SpecConcRecon == InitTree /\ [][NextConcRecon]_vars

\* A reply is posted while other requests show a thread or a forum.
NextConcView ==
    \/ \E t \in Threads, u \in Users : ReplySave(1, t, u)
    \/ Step(1)
    \/ \E p \in Procs, t \in Threads : ThreadView(p, t)
    \/ \E p \in Procs, f \in Forums : ForumView(p, f)
    \/ \E p \in Procs : IncStep(p)

SpecConcView == InitTree /\ [][NextConcView]_vars

\* Requests that subscribe and unsubscribe users while maintenance runs
\* reconcile the subscriber count.  None reads a forum, so the forums are
\* all roots, and the requests of one thread never read the rows of
\* another, so all are about thread 1.
NextConcSub ==
    \/ \E p \in Procs, u \in Users :
          NextId(ThreadSubscription) <= MaxId /\ SubscribeRequest(p, 1, u)
    \/ \E p \in Procs, u \in Users : UnsubscribeRequest(p, 1, u)
    \/ \E p \in Procs : ReconcileSubscribers(p, 1)
    \/ \E p \in Procs : SubscribeStep(p)
    \/ \E p \in Procs : UnsubscribeStep(p)
    \/ \E p \in Procs : Return(p)

SpecConcSub == InitEdit /\ [][NextConcSub]_vars

\* Replies of one user to one thread, posted by requests that overlap and
\* then follow one another.
NextConcPost ==
    \/ \E p \in Procs : Len(ForumReply) < MaxOverlap /\ ReplySave(p, 1, 1)
    \/ \E p \in Procs : Step(p)
    \/ \E p \in Procs : Return(p)

SpecConcPost == InitEdit /\ [][NextConcPost]_vars

\* Threads and replies as users create them, starting from forums without
\* threads.
InitNotify ==
    /\ \E p \in ParentMaps : Forum = ForumInit(p)
    /\ ForumThread = <<>>
    /\ ForumReply = <<>>
    /\ UserPostCount = <<>>
    /\ ThreadSubscription = <<>>
    /\ now = 1
    /\ drifts = 0
    /\ events = <<>>
    /\ last = <<"init">>
    /\ pc = [p \in Procs |-> "idle"]
    /\ local = [p \in Procs |-> NoLocals]

NextNotify ==
    \/ \E f \in Forums, u \in Users : PostThread(f, u)
    \/ \E t \in DOMAIN ForumThread, u \in Users : PostReply(t, u)

SpecNotify == InitNotify /\ [][NextNotify]_vars

\* Subscriptions with the subscribed() query, asked for users and for the
\* anonymous user.
NextSubscribed ==
    \/ \E t \in Threads, u \in Users : Subscribe(t, u)
    \/ \E t \in Threads, u \in Users : Unsubscribe(t, u)
    \/ \E t \in Threads, u \in Users \cup {AnonymousUser} : Subscribed(t, u)

SpecSubscribed == InitTree /\ [][NextSubscribed]_vars

\* Views, one operation at a time.
NextView ==
    \/ \E t \in Threads : ThreadIncViews(t)
    \/ \E f \in Forums : ForumIncViews(f)
    \/ \E f \in Forums : UpdateViewCount(f)

SpecView == InitTree /\ [][NextView]_vars

\* No method reads or writes a counter of another family (replies, views,
\* subscribers), so a run of the reconciliation specification works on one
\* family of counters.  Counters are overwritten from outside, viewed and
\* subscribed to on the numbered forests; on the parent maps with a cycle,
\* replies are created and reconciled.
NoReplyYet == ForumReply = <<>> /\ drifts = 0
NoViewYet == /\ \A f \in Forums : Forum[f].view_count = 0
             /\ \A t \in Threads : ForumThread[t].view_count = 0
NoSubscriptionYet ==
    /\ ThreadSubscription = <<>>
    /\ \A t \in Threads : ForumThread[t].subscriber_count = 0


----------------------------------------------------------------------------
(* What the stored counters are compared with *)

RECURSIVE Up(_, _)
\* The forum n parent links above f, or NULL when the chain ends before.
Up(f, n) == IF n = 0 \/ f = NULL THEN f ELSE Up(Forum[f].parent, n - 1)

\* The parent chain of f reaches a root.
Acyclic(f) == Up(f, Cardinality(Forums)) = NULL

\* The forums form a forest.
IsForest == \A f \in Forums : Acyclic(f)

\* The reconciliation specification: one family of counters per run.
NextRecon ==
    \/ TreeNumbered /\ NoViewYet /\ NoSubscriptionYet /\ NextDrift
    \/ /\ ~IsForest /\ NoViewYet /\ NoSubscriptionYet
       /\ \/ CreateReply(1, 1)
          \/ \E f \in Forums : UpdateReplyCount(f)
    \/ TreeNumbered /\ NoReplyYet /\ NoSubscriptionYet /\ NextView
    \/ TreeNumbered /\ NoReplyYet /\ NoViewYet /\ NextSub

SpecRecon == Init /\ [][NextRecon]_vars

\* The forums on the parent chain of f: f, its parent, ..., the root when
\* there is one.
ChainSet(f) == {Up(f, n) : n \in 0..(Cardinality(Forums) - 1)} \ {NULL}

\* The subtree of forum f: f and all its descendant subforums.
Subtree(f) == {g \in Forums : f \in ChainSet(g)}

ThreadsUnder(f) == {t \in Threads : ForumThread[t].forum \in Subtree(f)}

\* The reply records of thread t, and of all threads in the subtree of f.
RepliesOf(t) == {r \in 1..Len(ForumReply) : ForumReply[r].thread = t}
RepliesUnder(f) ==
    {r \in 1..Len(ForumReply) : ForumReply[r].thread \in ThreadsUnder(f)}

----------------------------------------------------------------------------
(* Claims *)

\* C1: one reply creation increments reply_count by exactly 1 on the thread
\* and on every forum of the owning forum's ancestor chain, and sets
\* last_reply to the reply and last_modified to its created time on all of
\* them.
C1_ReplyPropagatesUpChain ==
    [][(/\ Len(ForumReply') = Len(ForumReply) + 1
        /\ Acyclic(ForumThread[ForumReply'[Len(ForumReply')].thread].forum)) =>
        LET r == Len(ForumReply')
            reply == ForumReply'[r]
            t == reply.thread
        IN  /\ last'[3] = ""
            /\ ForumThread'[t].reply_count = ForumThread[t].reply_count + 1
            /\ ForumThread'[t].last_reply = r
            /\ ForumThread'[t].last_modified = reply.created
            /\ \A f \in ChainSet(ForumThread[t].forum) :
                  /\ Forum'[f].reply_count = Forum[f].reply_count + 1
                  /\ Forum'[f].last_reply = r
                  /\ Forum'[f].last_modified = reply.created]_vars

\* A reply to a thread two levels below the root has just been recorded.
C1_Witness ==
    /\ last[1] = "new_reply"
    /\ LET r == last[2]
           t == ForumReply[r].thread
       IN  /\ Acyclic(ForumThread[t].forum)
           /\ Cardinality(ChainSet(ForumThread[t].forum)) = 3
           /\ ForumReply[r].created > 1
           /\ ForumThread[t].last_reply = r
           /\ \A f \in ChainSet(ForumThread[t].forum) : Forum[f].last_reply = r

\* C3: update_reply_count run on a forum after any sequence of replies
\* stores in forum.reply_count the number of reply records of all threads
\* in that forum's subtree.
C3_UpdateReplyCountIsTrueCount ==
    (last[1] = "update_reply_count" /\ last[4] = "") =>
        Forum[last[2]].reply_count = Cardinality(RepliesUnder(last[2]))

\* update_reply_count has just run on a forum whose count comes from a
\* thread of its own and from a subforum, and it changed a stored value.
C3_Witness ==
    /\ last[1] = "update_reply_count"
    /\ last[3]
    /\ LET f == last[2]
       IN  /\ \E t \in Threads : ForumThread[t].forum = f /\ RepliesOf(t) # {}
           /\ \E g \in Subtree(f) \ {f} : RepliesUnder(g) # {}

\* C4: whatever the stored values were, after update_reply_count(F) every
\* thread in F's subtree stores the number of its reply records and every
\* forum in F's subtree stores the number of reply records in its own
\* subtree.
C4_ReconcileRepairsSubtree ==
    (last[1] = "update_reply_count" /\ last[4] = "") =>
        /\ \A t \in ThreadsUnder(last[2]) :
              ForumThread[t].reply_count = Cardinality(RepliesOf(t))
        /\ \A g \in Subtree(last[2]) :
              Forum[g].reply_count = Cardinality(RepliesUnder(g))

\* A counter was overwritten, and update_reply_count on a root with a
\* subforum holding replies has just changed stored values back.
C4_Witness ==
    /\ last[1] = "update_reply_count"
    /\ last[3]
    /\ drifts > 0
    /\ LET f == last[2]
       IN  /\ Forum[f].parent = NULL
           /\ \E g \in Subtree(f) \ {f} : Cardinality(RepliesUnder(g)) = 2

\* C5: each reconciliation (update_reply_count and update_view_count on a
\* forum, update_subscriber_count on a thread) run twice in a row from any
\* state leaves the stored state that running it once leaves.
C5_ReconciliationIdempotent ==
    /\ \A f \in Forums :
          /\ LET once == Tables(Forum_update_reply_count(DB, f))
             IN  Tables(Forum_update_reply_count(once, f)) = once
          /\ Forum_update_view_count(Forum_update_view_count(DB, f), f)
                = Forum_update_view_count(DB, f)
    /\ \A t \in Threads :
          ForumThread_update_subscriber_count(
              ForumThread_update_subscriber_count(DB, t), t)
            = ForumThread_update_subscriber_count(DB, t)

\* update_view_count has just changed the stored view count of a forum
\* whose threads have been viewed.
C5_Witness ==
    /\ last[1] = "update_view_count"
    /\ last[3]
    /\ Forum[last[2]].view_count > 0

\* C7: when a user subscribes to a thread that has no other subscriber and
\* then subscribes to it again, the second call changes nothing and raises
\* nothing: there is exactly one subscription row for the pair and the
\* thread's subscriber_count is 1.
C7_SubscribeTwice ==
    [][(/\ last[1] = "subscribe" /\ last[4]
        /\ last'[1] = "subscribe" /\ last'[2] = last[2] /\ last'[3] = last[3]
        /\ \A i \in subscriptions(DB, last[2]) :
              ThreadSubscription[i].user = last[3])
       => /\ last'[5] = ""
          /\ Cardinality(subscription_rows(DB, last[2], last[3])') = 1
          /\ ForumThread'[last[2]].subscriber_count = 1
          /\ dbvars' = dbvars]_vars

\* A second subscribe found the row of the only subscriber.
C7_Witness ==
    /\ last[1] = "subscribe"
    /\ ~last[4]
    /\ subscriptions(DB, last[2]) = subscription_rows(DB, last[2], last[3])
    /\ ForumThread[last[2]].subscriber_count = 1

\* C8: after any sequence of subscribe and unsubscribe operations, every
\* thread's subscriber_count is the number of its subscription rows.
C8_SubscriberCountIsRowCount ==
    \A t \in Threads :
        ForumThread[t].subscriber_count = Cardinality(subscriptions(DB, t))

\* C9: unsubscribe for a user without a subscription row on the thread
\* raises nothing and leaves the subscription rows and the thread's
\* subscriber_count as they were.
C9_UnsubscribeNonSubscriber ==
    [][(last'[1] = "unsubscribe"
        /\ subscription_rows(DB, last'[2], last'[3]) = {})
       => /\ last'[5] = ""
          /\ ThreadSubscription' = ThreadSubscription
          /\ ForumThread'[last'[2]].subscriber_count
                = ForumThread[last'[2]].subscriber_count]_vars

\* A user without a row has just unsubscribed from a thread that has
\* another subscriber.
C9_Witness ==
    /\ last[1] = "unsubscribe"
    /\ ~last[4]
    /\ subscriptions(DB, last[2]) # {}

\* C2: when N requests have posted N replies to the same thread at the same
\* time and all have finished, the thread's reply_count is N and so is the
\* owning forum's.
C2_NoLostUpdates ==
    (\A p \in Procs : pc[p] = "done") =>
        \A t \in Threads :
            RepliesOf(t) = DOMAIN ForumReply =>
                /\ ForumThread[t].reply_count = Cardinality(Procs)
                /\ Forum[ForumThread[t].forum].reply_count = Cardinality(Procs)

\* The number of replies of the set A that user u wrote, and what the
\* user's post count rows add up to.
WrittenBy(A, u) == {r \in A : ForumReply[r].author = u}
PostCountOf(u) ==
    SumOf([i \in post_count_rows(DB, u) |-> UserPostCount[i].count],
          post_count_rows(DB, u))

\* C6: the thread update, the forum chain update and the post count update
\* of one reply happen together or not at all.  Whenever no request is
\* running there is a set A of replies (those that were propagated) such
\* that every thread, every forum and every user's post count counts
\* exactly the replies of A.
C6_PropagationAllOrNothing ==
    (\A p \in Procs : ~Running(p)) =>
        \E A \in SUBSET DOMAIN ForumReply :
            /\ \A t \in Threads :
                  ForumThread[t].reply_count = Cardinality(A \cap RepliesOf(t))
            /\ \A f \in Forums :
                  Forum[f].reply_count = Cardinality(A \cap RepliesUnder(f))
            /\ \A u \in Users : PostCountOf(u) = Cardinality(WrittenBy(A, u))

\* C10: editable(user) is true exactly when the user is the post's author
\* and the clock is before created + 30 minutes, and it changes no stored
\* state.
C10_EditableIffAuthorInWindow ==
    [][(last' # last /\ last'[1] = "editable") =>
        LET self == IF last'[2] = "thread" THEN ForumThread'[last'[3]]
                    ELSE ForumReply'[last'[3]]
        IN  /\ last'[5] = (/\ last'[4] = self.author
                           /\ now' < self.created + EditMinutes)
            /\ dbvars' = dbvars]_vars

\* The author has just been refused at the instant created + 30 minutes.
C10_Witness ==
    /\ last[1] = "editable"
    /\ last[2] = "reply"
    /\ last[4] = ForumReply[last[3]].author
    /\ now = ForumReply[last[3]].created + EditMinutes
    /\ ~last[5]

\* The sum of the view counts of the threads a forum owns.
ThreadViews(f) ==
    LET own == {t \in Threads : ForumThread[t].forum = f}
    IN  SumOf([t \in own |-> ForumThread[t].view_count], own)

\* C12: inc_views on a thread adds exactly 1 to the thread's view_count and
\* to the owning forum's, and leaves every other forum (the ancestors above
\* the owning forum included) and every other thread as it was; inc_views on
\* a forum adds 1 to that forum's view_count only.
C12_ViewsGoOneLevelUp ==
    [][last'[1] = "inc_views" =>
        IF last'[2] = "thread"
        THEN LET t == last'[3]
                 f == ForumThread[t].forum
             IN  /\ ForumThread'[t].view_count = ForumThread[t].view_count + 1
                 /\ Forum'[f].view_count = Forum[f].view_count + 1
                 /\ \A g \in Forums \ {f} :
                       Forum'[g].view_count = Forum[g].view_count
                 /\ \A s \in Threads \ {t} :
                       ForumThread'[s].view_count = ForumThread[s].view_count
        ELSE LET f == last'[3]
             IN  /\ Forum'[f].view_count = Forum[f].view_count + 1
                 /\ \A g \in Forums \ {f} :
                       Forum'[g].view_count = Forum[g].view_count
                 /\ \A s \in Threads :
                       ForumThread'[s].view_count = ForumThread[s].view_count
       ]_vars

\* A thread two levels below the root has just been viewed: the owning
\* forum counts the view and the forums above it count none.
C12_Witness ==
    /\ last[1] = "inc_views"
    /\ last[2] = "thread"
    /\ LET f == ForumThread[last[3]].forum
       IN  /\ Acyclic(f)
           /\ Cardinality(ChainSet(f)) = 3
           /\ Forum[f].view_count = 1
           /\ \A g \in ChainSet(f) \ {f} : Forum[g].view_count = 0

\* C13: update_view_count(forum) stores in forum.view_count the sum of the
\* view counts of the threads the forum owns, counts nothing of any
\* subforum, and changes no other forum and no thread.
C13_UpdateViewCountOwnThreads ==
    [][last'[1] = "update_view_count" =>
        LET f == last'[2]
        IN  /\ Forum'[f].view_count = ThreadViews(f)
            /\ \A g \in Forums \ {f} : Forum'[g] = Forum[g]
            /\ ForumThread' = ForumThread]_vars

\* update_view_count has just run on a forum that has a viewed thread of
\* its own and a subforum with views.
C13_Witness ==
    /\ last[1] = "update_view_count"
    /\ LET f == last[2]
       IN  /\ Forum[f].view_count > 0
           /\ \E g \in Forums : Forum[g].parent = f /\ Forum[g].view_count > 0

\* C18: with no counter written from outside, after any sequence of reply
\* creations every thread's reply_count is the number of its replies and
\* every forum's reply_count is the sum of the reply counts of its threads
\* and of its direct subforums, so update_reply_count on any forum changes
\* no stored value.
C18_IncrementalAgreesWithReconciliation ==
    IsForest =>
    /\ \A t \in Threads :
          ForumThread[t].reply_count = Cardinality(RepliesOf(t))
    /\ \A f \in Forums :
          LET own == {t \in Threads : ForumThread[t].forum = f}
              sub == {g \in Forums : Forum[g].parent = f}
          IN  Forum[f].reply_count
                = SumOf([t \in own |-> ForumThread[t].reply_count], own)
                  + SumOf([g \in sub |-> Forum[g].reply_count], sub)
    /\ \A f \in Forums : Forum_update_reply_count(DB, f) = DB

\* update_reply_count has just run on a root forum that has replies in a
\* thread of its own and in a subforum.
C18_Witness ==
    /\ last[1] = "update_reply_count"
    /\ Len(ForumReply) = MaxReplies
    /\ LET f == last[2]
       IN  /\ Forum[f].parent = NULL
           /\ \E t \in Threads : ForumThread[t].forum = f /\ RepliesOf(t) # {}
           /\ \E g \in Subtree(f) \ {f} : RepliesUnder(g) # {}

\* C20: after any sequence of inc_views operations on threads and on
\* forums, every forum's view_count is the sum of the view counts of its
\* own threads.
C20_ForumViewsAreThreadViews ==
    \A f \in Forums : Forum[f].view_count = ThreadViews(f)

\* C15: subscribed(thread, user) answers False for the anonymous user
\* without any lookup of subscription rows; for an authenticated user it
\* answers True exactly when a subscription row for (thread, user) exists;
\* in both cases it changes no stored state.
C15_SubscribedIsMembership ==
    [][last'[1] = "subscribed" =>
        LET t == last'[2]
            u == last'[3]
        IN  /\ UNCHANGED dbvars
            /\ last'[6] = ""
            /\ IF u = AnonymousUser
               THEN last'[4] = FALSE /\ last'[5] = 0
               ELSE last'[4] = (\E i \in DOMAIN ThreadSubscription :
                                  /\ ThreadSubscription[i].thread = t
                                  /\ ThreadSubscription[i].user = u)]_vars

\* subscribed() has just answered True for a subscriber of a thread whose
\* other user is not subscribed.
C15_Witness ==
    /\ last[1] = "subscribed"
    /\ last[4] = TRUE
    /\ \E u \in Users : subscription_rows(DB, last[2], u) = {}

\* C11: every reply creation hands the activity sink exactly one event, of
\* kind "forum_post" with the reply's author and the reply, and every
\* thread creation exactly one event, of kind "forum_thread" with the
\* thread's author and the thread; no step emits both kinds.
C11_OneNotificationPerAction ==
    [][/\ (Len(ForumReply') = Len(ForumReply) + 1 /\ last'[3] = "") =>
            LET id == Len(ForumReply')
            IN  events' = Append(events,
                                 [kind |-> "forum_post",
                                  user |-> ForumReply'[id].author,
                                  object |-> id])
       /\ Len(ForumThread') = Len(ForumThread) + 1 =>
            LET id == Len(ForumThread')
            IN  events' = Append(events,
                                 [kind |-> "forum_thread",
                                  user |-> ForumThread'[id].author,
                                  object |-> id])
       /\ (ForumReply' = ForumReply /\ ForumThread' = ForumThread) =>
            events' = events]_vars

\* Two threads and the replies have been created, by both users, and the
\* sink has been handed one event for each.
C11_Witness ==
    /\ Len(ForumThread) = 2
    /\ Len(ForumReply) = MaxReplies
    /\ Len(events) = 2 + MaxReplies
    /\ \E i, j \in DOMAIN events :
          /\ events[i].kind = "forum_thread" /\ events[j].kind = "forum_post"
          /\ events[i].user # events[j].user

\* C14: after any sequence of thread and reply creations a user has at most
\* one UserPostCount row; the user has none exactly when the user wrote no
\* reply, and otherwise its count is the number of replies the user wrote;
\* a thread creation changes no UserPostCount row.  The replies counted are
\* those whose creation returned: the ones on a thread whose forum chain
\* reaches a root.
C14_PostCountIsRepliesWritten ==
    /\ [](\A u \in Users :
            LET rows == post_count_rows(DB, u)
                written == {r \in WrittenBy(DOMAIN ForumReply, u) :
                               Acyclic(ForumThread[ForumReply[r].thread].forum)}
            IN  /\ Cardinality(rows) <= 1
                /\ rows = {} <=> written = {}
                /\ \A i \in rows :
                      UserPostCount[i].count = Cardinality(written))
    /\ [][Len(ForumThread') # Len(ForumThread) =>
            UserPostCount' = UserPostCount]_vars

\* A user who wrote two replies has one row with count 2, and the other
\* user, who created a thread and wrote no reply, has no row.
C14_Witness ==
    /\ \E u \in Users :
          /\ Cardinality(post_count_rows(DB, u)) = 1
          /\ PostCountOf(u) = 2
    /\ \E u \in Users :
          /\ post_count_rows(DB, u) = {}
          /\ \E t \in DOMAIN ForumThread : ForumThread[t].author = u

\* C16: the reconciliation operations do not touch last_reply and
\* last_modified: when one of them completes, also while a reply creation
\* is under way, those fields of every forum and every thread hold the
\* values that were in storage immediately before.
C16_ReconciliationKeepsLastReply ==
    [][\A q \in Procs :
         (/\ pc[q] \in {"save_reply_count", "save_view_count",
                         "save_thread_count", "save_forum_count",
                         "save_subscriber_count"}
          /\ pc'[q] # pc[q])
         => /\ \A f \in Forums :
                 /\ Forum'[f].last_reply = Forum[f].last_reply
                 /\ Forum'[f].last_modified = Forum[f].last_modified
            /\ \A t \in Threads :
                 /\ ForumThread'[t].last_reply = ForumThread[t].last_reply
                 /\ ForumThread'[t].last_modified
                       = ForumThread[t].last_modified]_vars

\* C19: inc_views does not change reply_count, last_reply or last_modified,
\* also when it runs while a reply is created on the same thread: once both
\* requests have completed, the thread row and the row of its forum hold
\* the view and the reply.
C19_ViewAndReplyBothKept ==
    (pc[1] = "done" /\ pc[2] = "done" /\ local[1].reply.id # NULL)
    => LET reply == local[1].reply
           f == ForumThread[reply.thread].forum
       IN  \* request 2 has shown the thread of the reply
           /\ local[2].target = reply.thread =>
                 LET t == reply.thread
                 IN  /\ ForumThread[t].view_count = 1
                     /\ ForumThread[t].reply_count = 1
                     /\ ForumThread[t].last_reply = reply.id
                     /\ ForumThread[t].last_modified = reply.created
                     /\ Forum[f].view_count = 1
                     /\ Forum[f].reply_count = 1
                     /\ Forum[f].last_reply = reply.id
                     /\ Forum[f].last_modified = reply.created
           \* request 2 has shown the forum of the reply's thread
           /\ (local[2].target = NULL /\ local[2].forum_id = f) =>
                     /\ Forum[f].view_count = 1
                     /\ Forum[f].reply_count = 1
                     /\ Forum[f].last_reply = reply.id
                     /\ Forum[f].last_modified = reply.created

\* The walk of the request is over: the handler is at the post count.
AfterWalk(p) ==
    pc[p] \in {"get_post_count", "create_post_count", "save_post_count", "done"}

\* The forum that owns the thread of the request's reply.
OwningForum(p) == ForumThread[local[p].reply.thread].forum

\* What the walk does on a chain that reaches a root: every forum of the
\* chain is updated at most once while the walk runs and exactly once when
\* it is over, and no other forum is modified.
WalkOnAcyclicChain ==
    (pc[1] # "idle" /\ Acyclic(OwningForum(1))) =>
        LET f == OwningForum(1)
            id == local[1].reply.id
        IN  /\ pc[1] # "failed"
            /\ \A g \in ChainSet(f) : Forum[g].reply_count <= 1
            /\ \A g \in Forums \ ChainSet(f) :
                  /\ Forum[g].reply_count = 0
                  /\ Forum[g].last_reply = NULL
                  /\ Forum[g].last_modified = 0
            /\ AfterWalk(1) =>
                  \A g \in ChainSet(f) :
                     /\ Forum[g].reply_count = 1
                     /\ Forum[g].last_reply = id

\* C17 as stated: on a chain that reaches a root the walk updates every
\* forum of the chain exactly once and no other forum, and on a chain that
\* runs into a cycle the walk does not terminate: the handler is still
\* running in every state that follows the reply's save.
C17_WalkNeverEndsOnCycle ==
    /\ WalkOnAcyclicChain
    /\ (pc[1] # "idle" /\ ~Acyclic(OwningForum(1))) => Running(1)

\* C17, amended: on a chain that reaches a root the walk ends, having
\* updated every forum of the chain exactly once and no other forum; on a
\* chain that runs into a cycle the walk never reaches the post count: it
\* goes round the cycle, saving a forum at each call, until the
\* interpreter's recursion limit ends the handler with RecursionError, with
\* MaxDepth forum saves kept and no UserPostCount row written.
C17_WalkEndsIffAcyclic ==
    /\ []WalkOnAcyclicChain
    /\ []((pc[1] # "idle" /\ ~Acyclic(OwningForum(1))) =>
            /\ ~AfterWalk(1)
            /\ UserPostCount = <<>>
            /\ pc[1] = "failed" =>
                  SumOf([g \in Forums |-> Forum[g].reply_count], Forums)
                    = MaxDepth)
    /\ ((pc[1] = "load_thread" /\ Acyclic(OwningForum(1))) ~> pc[1] = "done")
    /\ ((pc[1] = "load_thread" /\ ~Acyclic(OwningForum(1)))
          ~> pc[1] = "failed")

\* The walk went round a cycle of two forums until the recursion limit
\* ended it: the single reply is counted more than once on both.
C17_Witness ==
    /\ pc[1] = "failed"
    /\ ~Acyclic(OwningForum(1))
    /\ \E g, h \in Forums :
          /\ g # h
          /\ Forum[g].parent = h /\ Forum[h].parent = g
          /\ Forum[g].reply_count > 1
          /\ Forum[h].reply_count > 1

\* Overlapping requests leave a user with two UserPostCount rows, and the
\* next reply of that user ends with MultipleObjectsReturned at the lookup,
\* after the thread and the forum have counted it.
DuplicatePostCountsRaise ==
    \E p \in Procs :
        /\ pc[p] = "failed"
        /\ Cardinality(post_count_rows(DB, local[p].reply.author)) = 2
        /\ ForumThread[1].last_reply = local[p].reply.id

\* Two overlapping subscriptions of one user: the second INSERT is refused
\* and the pair keeps one row.
OverlappingSubscribesKeepOneRow ==
    \E p \in Procs :
        /\ pc[p] = "get_subscription_again"
        /\ Cardinality(subscription_rows(DB, local[p].target,
                                         local[p].user)) = 1

\* Two overlapping subscriptions of two users to one thread are both over
\* and the thread counts one subscriber.
OverlappingSubscribesLoseOne ==
    \E t \in Threads :
        /\ \A p \in Procs : pc[p] = "done" /\ local[p].created
                               /\ local[p].target = t
        /\ Cardinality(subscriptions(DB, t)) = 2
        /\ ForumThread[t].subscriber_count = 1

\* An unsubscribe read the row of its user, the row was deleted and its id
\* handed out again to the subscription of another user, and the
\* unsubscribe then deleted that subscription.
StaleDeleteRemovesOtherSubscription ==
    \E p, q \in Procs :
        /\ pc[p] = "done" /\ pc[q] = "done"
        /\ ~local[p].created /\ local[q].created
        /\ local[p].subscription.id = local[q].subscription.id
        /\ local[p].user # local[q].user
        /\ subscription_rows(DB, local[q].target, local[q].user) = {}

\* The pair never has two rows.
OneRowPerPair ==
    \A t \in Threads, u \in Users :
        Cardinality(subscription_rows(DB, t, u)) <= 1

\* Two overlapping views of a forum are both over and the forum counts one.
OverlappingForumViewsLoseOne ==
    \E f \in Forums :
        /\ \A p \in Procs : pc[p] = "done" /\ local[p].target = NULL
                               /\ local[p].reply.id = NULL
                               /\ local[p].forum_id = f
        /\ Forum[f].view_count = 1

\* A reply is counted by its thread while update_reply_count is under way,
\* and the reconciliation then saves the count it took before.
ReconciliationSavesStaleCount ==
    /\ pc[1] = "done" /\ pc[2] = "done" /\ local[2].stack = <<>>
    /\ local[2].target = NULL /\ local[2].forum_id = NULL
    /\ ForumThread[local[1].reply.thread].reply_count = 0
====
